---- MODULE Spec2Model ----
(***************************************************************************)
(* Research paper summarizer: the crew pipeline behind process_query       *)
(* (src/main.py), the task graph (src/MultiAgent/tasks.py) and the tools   *)
(* the agents call (src/MultiAgent/tools.py).                              *)
(*                                                                         *)
(* Strings are sequences of one-character strings where the code looks     *)
(* inside them (lower, replace, strip, concatenation) and atoms elsewhere. *)
(* Similarity scores are tenths: 5 stands for 0.5.                         *)
(***************************************************************************)
EXTENDS Integers, Sequences, FiniteSets, TLC

\* ------------------------------------------------------------------ bounds

\* concurrent process_query invocations (Flask serves requests in threads)
NumSessions == 2
\* distinct values of str(uuid.uuid4())[:8] the model draws from
NumIds == 2
\* distinct values of uuid.uuid4().hex[:8] the model draws from
NumTokens == 2
\* audio_generator calls the audio agent makes in one run
MaxAudioCalls == 2

Sessions == 1..NumSessions
SessionIds == 1..NumIds
AudioTokens == 1..NumTokens

None == "None"

\* ------------------------------------------------------------- task graph

\* a task list that runs classification before the papers are processed
MapTasksClassifyFirst ==
    << [name |-> "search",     context |-> {}],
       [name |-> "upload",     context |-> {}],
       [name |-> "classify",   context |-> {"process"}],
       [name |-> "process",    context |-> {"search", "upload"}],
       [name |-> "summarize",  context |-> {"classify"}],
       [name |-> "synthesize", context |-> {"summarize"}],
       [name |-> "audio",      context |-> {"synthesize"}] >>

\* the task list of the crew, in execution order, with the context each
\* task is created with
MapTasks ==
    << [name |-> "search",     context |-> {}],
       [name |-> "upload",     context |-> {}],
       [name |-> "process",    context |-> {"search", "upload"}],
       [name |-> "classify",   context |-> {"process"}],
       [name |-> "summarize",  context |-> {"classify"}],
       [name |-> "synthesize", context |-> {"summarize"}],
       [name |-> "audio",      context |-> {"synthesize"}] >>

Stages == {MapTasks[i].name : i \in 1..Len(MapTasks)}

\* the declared dependency set of a stage
Deps(st) ==
    UNION {MapTasks[i].context : i \in {j \in 1..Len(MapTasks) : MapTasks[j].name = st}}

\* the context each task is declared with in the tasks module
TaskContext(st) ==
    CASE st = "process"    -> {"search", "upload"}
      [] st = "classify"   -> {"process"}
      [] st = "summarize"  -> {"classify"}
      [] st = "synthesize" -> {"summarize"}
      [] st = "audio"      -> {"summarize", "synthesize"}
      [] OTHER             -> {}

\* the task objects of the tasks module: search_task .. audio_task
BaseTask(name) == [module |-> "tasks", name |-> name]

\* type(base_task)(description=..., agent=agent, ..., context=context or []):
\* a new task object, with the context it is handed
CreateTask(base_task, context) ==
    [obj |-> [module |-> "main", name |-> base_task.name], context |-> context]

\* the list _map_tasks returns: each task created from its base task, its
\* context the base tasks named in the call
TaskObjects ==
    [i \in 1..Len(MapTasks) |->
        CreateTask(BaseTask(MapTasks[i].name),
                   {BaseTask(c) : c \in MapTasks[i].context})]

\* the tools each ingestion task tells its agent to call
ToolsOf(st) ==
    CASE st = "search"  -> <<"arxiv_search", "semantic_scholar_search", "doi_resolver">>
      [] st = "upload"  -> <<"pdf_text_extractor">>
      [] st = "process" -> <<"url_processor">>
      [] OTHER          -> <<>>

Tools ==
    {"arxiv_search", "semantic_scholar_search", "doi_resolver",
     "pdf_text_extractor", "url_processor"}

\* --------------------------------------------------------- tool results

Rec(title, surname, doi, abstract, source) ==
    [title |-> title, surname |-> surname, doi |-> doi,
     abstract |-> abstract, source |-> source]

\* arxiv_search: doi is getattr(result, 'doi', None); the abstract is the
\* arXiv summary
ArxivResults ==
    { <<>>,
      << Rec("T1", "Doe", "D1", "S1", "arXiv") >>,
      << Rec("T1", "Doe", None, "S1", "arXiv") >> }

\* semantic_scholar_search: doi is externalIds.get("DOI", "") or ""; the
\* abstract may be None
SemanticScholarResults ==
    { << Rec("T1", "Doe", "D1", None, "Semantic Scholar") >>,
      << Rec("T2", "Roe", "", "A2", "Semantic Scholar") >> }

DoiResults == { << Rec("T3", "Poe", "D3", "A3", "DOI") >> }

PdfResults == { << Rec("T4", "", None, None, "upload") >> }

UrlResults == { << Rec("T5", "", None, None, "URL (HTML)") >> }

ToolResults(t) ==
    CASE t = "arxiv_search"            -> ArxivResults
      [] t = "semantic_scholar_search" -> SemanticScholarResults
      [] t = "doi_resolver"            -> DoiResults
      [] t = "pdf_text_extractor"      -> PdfResults
      [] t = "url_processor"           -> UrlResults

Raise == [ok |-> FALSE, value |-> <<>>]

Return(v) == [ok |-> TRUE, value |-> v]

\* what the outside world answers to each tool call of a run: a list of
\* records, or an exception
Worlds ==
    {w \in [Tools -> {Raise} \cup {Return(v) : v \in UNION {ToolResults(t) : t \in Tools}}] :
        \A t \in Tools : w[t] = Raise \/ w[t].value \in ToolResults(t)}

\* ------------------------------------------------------------ dictionaries

EmptyDict == [k \in {} |-> None]

Get(d, k, default) == IF k \in DOMAIN d THEN d[k] ELSE default

Put(d, k, v) == [x \in DOMAIN d \cup {k} |-> IF x = k THEN v ELSE d[x]]

\* ------------------------------------------------------------- file system

Path(root, id, sub, n, s) == [root |-> root, id |-> id, sub |-> sub, n |-> n, s |-> s]

DirOf(p) == [root |-> p.root, id |-> p.id, sub |-> p.sub]

\* os.path.join(result_dir, "results.json")
ResultsJson(id) == Path("results", id, "", 0, <<"results.json">>)

\* os.path.join(summary_dir, f'{paper_id}.md')
SummaryFile(id, paper_id) == Path("results", id, "summaries", paper_id, <<".md">>)

Lower(c) == IF c = "A" THEN "a" ELSE IF c = "B" THEN "b" ELSE c

\* topic.lower().replace(' ', '_') + '.md'
Slug(topic) ==
    [i \in 1..Len(topic) |-> IF Lower(topic[i]) = " " THEN "_" ELSE Lower(topic[i])]
        \o <<".md">>

SynthesisFile(id, topic) == Path("results", id, "syntheses", 0, Slug(topic))

\* os.path.join("audio_files", f"audio_{uuid.uuid4().hex[:8]}.mp3")
AudioFile(token) == Path("audio_files", 0, "", token, <<"audio_", ".mp3">>)

RECURSIVE SeqOfSet(_)
SeqOfSet(S) ==
    IF S = {} THEN <<>>
    ELSE LET x == CHOOSE y \in S : TRUE IN <<x>> \o SeqOfSet(S \ {x})

RECURSIVE Flatten(_)
Flatten(ss) == IF ss = <<>> THEN <<>> ELSE Head(ss) \o Flatten(Tail(ss))

\* ------------------------------------------------------------------ state

VARIABLES
    world,        \* what each tool call returns or raises
    inputs,       \* per session: the inputs dictionary of process_query
    pc,           \* per session: idle, kickoff, returned, raised
    session_id,   \* per session: str(uuid.uuid4())[:8], 0 before it is drawn
    task_index,   \* per session: position of crew.kickoff in the task list
    status,       \* per session, per stage: pending, running, done, failed
    results,      \* per session: the dictionary crew.kickoff builds
    error,        \* per session: the exception that left process_query
    returned,     \* per session: the value process_query returned
    dirs,         \* the result directories that exist
    fs,           \* the files that exist
    wrote,        \* per session: the files it wrote, in order
    paper_metadata,  \* citation_generator: its argument
    cite_pc,         \* citation_generator: call, return
    authors_str,     \* citation_generator: the local authors
    apa,             \* citation_generator: the citation it returns
    topic_list,      \* topic_classifier: its argument topics
    similarity,      \* topic_classifier: cosine similarity of the text to each topic
    scores,          \* topic_classifier: the dictionary it returns
    classification,  \* classification task: primary and secondary topics
    cls_pc,          \* classification task: score, assign, done
    tasks,           \* self.tasks: the task objects of the one crew
    crew_memory,     \* the memory of the one crew: what finished tasks left
    recalled         \* per session: the sessions whose memories its tasks were given

pipevars ==
    <<world, inputs, pc, session_id, task_index, status, results, error, returned,
      dirs, fs, wrote>>

citevars == <<paper_metadata, cite_pc, authors_str, apa>>

clsvars == <<topic_list, similarity, scores, classification, cls_pc>>

crewvars == <<tasks, crew_memory, recalled>>

vars == <<pipevars, citevars, clsvars, crewvars>>

\* the topic lists the request form is filled with
TopicLists ==
    { << <<"A">> >>,
      << <<"A", " ", "B">>, <<"a", "_", "b">> >> }

Range(seq) == {seq[i] : i \in 1..Len(seq)}

InitSessions ==
    /\ inputs = [s \in Sessions |-> EmptyDict]
    /\ pc = [s \in Sessions |-> "idle"]
    /\ session_id = [s \in Sessions |-> 0]
    /\ task_index = [s \in Sessions |-> 1]
    /\ status = [s \in Sessions |-> [st \in Stages |-> "pending"]]
    /\ results = [s \in Sessions |-> EmptyDict]
    /\ error = [s \in Sessions |-> None]
    /\ returned = [s \in Sessions |-> EmptyDict]
    /\ dirs = {}
    /\ fs = {}
    /\ wrote = [s \in Sessions |-> <<>>]
    /\ tasks = TaskObjects
    /\ crew_memory = {}
    /\ recalled = [s \in Sessions |-> {}]

\* ------------------------------------------------------------ process_query

\* session_id = str(uuid.uuid4())[:8]; os.makedirs(result_dir, exist_ok=True)
ProcessQueryStart(s) ==
    /\ pc[s] = "idle"
    /\ \E topics \in TopicLists :
        inputs' = [inputs EXCEPT ![s] = [topics |-> topics]]
    /\ \E id \in SessionIds :
        /\ session_id' = [session_id EXCEPT ![s] = id]
        /\ \/ /\ dirs' = dirs \cup {id}
              /\ pc' = [pc EXCEPT ![s] = "kickoff"]
              /\ error' = error
           \/ /\ dirs' = dirs
              /\ pc' = [pc EXCEPT ![s] = "raised"]
              /\ error' = [error EXCEPT ![s] = "OSError"]
    /\ UNCHANGED <<citevars, clsvars, crewvars>>
    /\ UNCHANGED <<world, task_index, status, results, returned, fs, wrote>>

\* the sessions that left something in the memory
MemoryOwners(memory) == {m.session : m \in memory}

\* memory=True: what a finished task of a run leaves in the crew's memory
Remember(memory, s, st) == memory \cup {[session |-> s, stage |-> st]}

\* Process.sequential: the next task of the list starts when the one before
\* it has returned; its agent is given what the memory of the crew holds
StartTask(s) ==
    /\ pc[s] = "kickoff"
    /\ task_index[s] <= Len(MapTasks)
    /\ status[s][MapTasks[task_index[s]].name] = "pending"
    /\ status' = [status EXCEPT ![s][MapTasks[task_index[s]].name] = "running"]
    /\ recalled' = [recalled EXCEPT ![s] = recalled[s] \cup MemoryOwners(crew_memory)]
    /\ UNCHANGED <<citevars, clsvars, tasks, crew_memory>>
    /\ UNCHANGED <<world, inputs, pc, session_id, task_index, results, error, returned,
                   dirs, fs, wrote>>

\* the records the tools of a stage return; a tool that raised adds none
Fetched(w, st) ==
    Flatten([i \in 1..Len(ToolsOf(st)) |->
                IF w[ToolsOf(st)[i]].ok THEN w[ToolsOf(st)[i]].value ELSE <<>>])

\* what a finished stage can leave in the results: the records fetched, one
\* summary per paper, one synthesis per topic that some paper has as primary
StageOutputs(st, w, topics, r) ==
    CASE st \in {"search", "upload", "process"} ->
            { Put(r, "papers", Get(r, "papers", <<>>) \o Fetched(w, st)) }
      [] st = "summarize" ->
            { Put(r, "summaries",
                  [p \in 1..Len(Get(r, "papers", <<>>)) |-> "summary"]) }
      [] st = "synthesize" ->
            { Put(r, "syntheses", [t \in K |-> "synthesis"]) :
                K \in {L \in SUBSET Range(topics) :
                          Cardinality(L) <= Len(Get(r, "papers", <<>>))} }
      [] OTHER -> {r}

FinishTask(s) ==
    /\ pc[s] = "kickoff"
    /\ task_index[s] <= Len(MapTasks)
    /\ LET st == MapTasks[task_index[s]].name IN
        /\ status[s][st] = "running"
        /\ status' = [status EXCEPT ![s][st] = "done"]
        /\ \E r \in StageOutputs(st, world, inputs[s].topics, results[s]) :
              results' = [results EXCEPT ![s] = r]
    /\ task_index' = [task_index EXCEPT ![s] = task_index[s] + 1]
    /\ crew_memory' = Remember(crew_memory, s, MapTasks[task_index[s]].name)
    /\ UNCHANGED <<citevars, clsvars, tasks, recalled>>
    /\ UNCHANGED <<world, inputs, pc, session_id, error, returned, dirs, fs, wrote>>

\* the exceptions a running stage can end with: the agent runtime's own, or
\* the one a tool of the stage raised
Causes(st, w) ==
    {"AgentError"} \cup {ToolsOf(st)[i] : i \in {j \in 1..Len(ToolsOf(st)) : ~w[ToolsOf(st)[j]].ok}}

\* nothing between the tool and the caller of process_query catches
FailTask(s) ==
    /\ pc[s] = "kickoff"
    /\ task_index[s] <= Len(MapTasks)
    /\ LET st == MapTasks[task_index[s]].name IN
        /\ status[s][st] = "running"
        /\ status' = [status EXCEPT ![s][st] = "failed"]
        /\ \E c \in Causes(st, world) : error' = [error EXCEPT ![s] = c]
    /\ pc' = [pc EXCEPT ![s] = "raised"]
    /\ UNCHANGED <<citevars, clsvars, crewvars>>
    /\ UNCHANGED <<world, inputs, session_id, task_index, results, returned, dirs, fs, wrote>>

\* audio_generator: a fresh token, no look at the files that exist
AudioGenerator(s) ==
    /\ pc[s] = "kickoff"
    /\ status[s]["audio"] = "running"
    /\ Len(Get(results[s], "audio_files", <<>>)) < MaxAudioCalls
    /\ Len(Get(results[s], "audio_files", <<>>)) <
          Len(Get(results[s], "summaries", <<>>))
            + Cardinality(DOMAIN Get(results[s], "syntheses", EmptyDict))
    /\ \E token \in AudioTokens :
        /\ fs' = fs \cup {AudioFile(token)}
        /\ wrote' = [wrote EXCEPT ![s] = Append(wrote[s], AudioFile(token))]
        /\ results' = [results EXCEPT ![s] =
              Put(results[s], "audio_files",
                  Append(Get(results[s], "audio_files", <<>>), AudioFile(token)))]
    /\ UNCHANGED <<citevars, clsvars, crewvars>>
    /\ UNCHANGED <<world, inputs, pc, session_id, task_index, status, error, returned, dirs>>

\* the files _save_results writes, in the order it writes them
SavedFiles(id, r) ==
    <<ResultsJson(id)>>
      \o (IF "summaries" \in DOMAIN r
          THEN [p \in 1..Len(r["summaries"]) |-> SummaryFile(id, p)]
          ELSE <<>>)
      \o (IF "syntheses" \in DOMAIN r
          THEN LET ts == SeqOfSet(DOMAIN r["syntheses"]) IN
               [i \in 1..Len(ts) |-> SynthesisFile(id, ts[i])]
          ELSE <<>>)

\* the counts process_query returns
ResultCount(r) ==
    [papers      |-> Len(Get(r, "papers", <<>>)),
     summaries   |-> Len(Get(r, "summaries", <<>>)),
     syntheses   |-> Cardinality(DOMAIN Get(r, "syntheses", EmptyDict)),
     audio_files |-> Len(Get(r, "audio_files", <<>>))]

\* self._save_results(results, result_dir); return {...}
SaveResults(s) ==
    /\ pc[s] = "kickoff"
    /\ task_index[s] = Len(MapTasks) + 1
    /\ LET files == SavedFiles(session_id[s], results[s]) IN
        /\ fs' = fs \cup {files[i] : i \in 1..Len(files)}
        /\ wrote' = [wrote EXCEPT ![s] = wrote[s] \o files]
    /\ returned' = [returned EXCEPT ![s] =
          [session_id |-> session_id[s], result_count |-> ResultCount(results[s])]]
    /\ pc' = [pc EXCEPT ![s] = "returned"]
    /\ UNCHANGED <<citevars, clsvars, crewvars>>
    /\ UNCHANGED <<world, inputs, session_id, task_index, status, results, error, dirs>>

ProcessQuery(s) ==
    \/ ProcessQueryStart(s)
    \/ StartTask(s)
    \/ FinishTask(s)
    \/ FailTask(s)
    \/ AudioGenerator(s)
    \/ SaveResults(s)

\* ------------------------------------------------------ citation_generator

\* authors in a metadata record
MaxAuthors == 3

\* an author name with a leading blank (an unstripped split of a meta tag)
AuthorNames == { <<"A">>, <<"B">>, <<" ", "C">> }

RECURSIVE SeqsUpTo(_, _)
SeqsUpTo(S, n) ==
    IF n = 0 THEN { <<>> }
    ELSE LET shorter == SeqsUpTo(S, n - 1) IN
         shorter \cup {Append(q, x) : q \in {r \in shorter : Len(r) = n - 1}, x \in S}

Absent == [has |-> FALSE, v |-> <<>>]

Present(v) == [has |-> TRUE, v |-> v]

\* a dictionary with the keys that are present
Dict(opts) == [k \in {x \in DOMAIN opts : opts[x].has} |-> opts[k].v]

MetadataRecords ==
    { Dict([authors |-> a, year |-> y, title |-> ti, journal |-> j,
            publisher |-> p, doi |-> d, url |-> u]) :
        a \in {Absent} \cup {Present(x) : x \in SeqsUpTo(AuthorNames, MaxAuthors)},
        y \in {Absent, Present(<<"2020">>)},
        ti \in {Absent, Present(<<"T">>)},
        j \in {Absent, Present(<<>>), Present(<<"J">>)},
        p \in {Absent, Present(<<"P">>)},
        d \in {Absent, Present(<<>>), Present(<<"10.1/x">>)},
        u \in {Absent, Present(<<>>), Present(<<"U">>), Present(<<"U", " ">>)} }

\* a format_authors that treats two authors like three
format_authors_no_pair(authors) ==
    IF authors = <<>> THEN <<"Unknown">>
    ELSE IF Len(authors) = 1 THEN authors[1]
    ELSE authors[1] \o <<" ", "et al.">>

format_authors(authors) ==
    IF authors = <<>> THEN <<"Unknown">>
    ELSE IF Len(authors) = 1 THEN authors[1]
    ELSE IF Len(authors) = 2 THEN authors[1] \o <<" ", "&", " ">> \o authors[2]
    ELSE authors[1] \o <<" ", "et al.">>

\* str.strip(): blanks removed at both ends
RECURSIVE LStrip(_)
LStrip(str) == IF str # <<>> /\ Head(str) = " " THEN LStrip(Tail(str)) ELSE str

RECURSIVE RStrip(_)
RStrip(str) ==
    IF str # <<>> /\ str[Len(str)] = " " THEN RStrip(SubSeq(str, 1, Len(str) - 1)) ELSE str

Strip(str) == RStrip(LStrip(str))

\* a citation that appends the url locator whether or not there is a DOI
ApaBothLocators(meta) ==
    LET journal == Get(meta, "journal", <<>>)
        publisher == Get(meta, "publisher", <<>>)
        doi == Get(meta, "doi", <<>>)
        url == Get(meta, "url", <<>>)
    IN Strip(format_authors(Get(meta, "authors", <<>>))
               \o <<" ", "(">> \o Get(meta, "year", <<"n.d.">>) \o <<")", ".", " ">>
               \o Get(meta, "title", <<"Unknown Title">>) \o <<".">>
               \o (IF journal # <<>> THEN <<" ">> \o journal \o <<".">> ELSE <<>>)
               \o (IF publisher # <<>> /\ journal = <<>>
                   THEN <<" ">> \o publisher \o <<".">> ELSE <<>>)
               \o (IF doi # <<>> THEN <<" ", "https://doi.org/">> \o doi ELSE <<>>)
               \o (IF url # <<>> THEN <<" ", "Retrieved from", " ">> \o url ELSE <<>>))

\* the apa string citation_generator builds
Apa(meta) ==
    LET authors == format_authors(Get(meta, "authors", <<>>))
        year == Get(meta, "year", <<"n.d.">>)
        title == Get(meta, "title", <<"Unknown Title">>)
        journal == Get(meta, "journal", <<>>)
        publisher == Get(meta, "publisher", <<>>)
        doi == Get(meta, "doi", <<>>)
        url == Get(meta, "url", <<>>)
        s0 == authors \o <<" ", "(">> \o year \o <<")", ".", " ">> \o title \o <<".">>
        s1 == IF journal # <<>> THEN s0 \o <<" ">> \o journal \o <<".">> ELSE s0
        s2 == IF publisher # <<>> /\ journal = <<>>
              THEN s1 \o <<" ">> \o publisher \o <<".">> ELSE s1
        s3 == IF doi # <<>> THEN s2 \o <<" ", "https://doi.org/">> \o doi
              ELSE IF url # <<>> THEN s2 \o <<" ", "Retrieved from", " ">> \o url
              ELSE s2
    IN Strip(s3)

CitationGenerator ==
    /\ cite_pc = "call"
    /\ authors_str' = format_authors(Get(paper_metadata, "authors", <<>>))
    /\ apa' = Apa(paper_metadata)
    /\ cite_pc' = "return"
    /\ UNCHANGED <<pipevars, crewvars, clsvars, paper_metadata>>

\* -------------------------------------------------------- classification

\* topics in the list of a request
MaxTopics == 3

\* 0.5 in tenths: the score a secondary topic must exceed
Threshold == 5

TopicNames == {"A", "B", "C"}

\* cosine similarities, in tenths
ScoreValues == {3, 5, 7, 9}

\* {topic: float(score) for topic, score in zip(topics, similarities)}
TopicScores(topics, sim) == [t \in Range(topics) |-> sim[t]]

TopicClassifier ==
    /\ cls_pc = "score"
    /\ scores' = TopicScores(topic_list, similarity)
    /\ cls_pc' = "assign"
    /\ UNCHANGED <<pipevars, crewvars, citevars, topic_list, similarity, classification>>

\* the topics with the highest score
Highest(sc) == {t \in DOMAIN sc : \A u \in DOMAIN sc : sc[u] <= sc[t]}

\* "Assign primary topic (highest score) and secondary topics (score > 0.5)":
\* the task names no rule for equal highest scores
Assignments(sc) ==
    { [primary |-> p, secondary |-> {t \in DOMAIN sc \ {p} : sc[t] > Threshold}] :
        p \in Highest(sc) }

AssignTopics ==
    /\ cls_pc = "assign"
    /\ \E c \in Assignments(scores) : classification' = c
    /\ cls_pc' = "done"
    /\ UNCHANGED <<pipevars, crewvars, citevars, topic_list, similarity, scores>>

\* ----------------------------------------------------------- specifications

NoWorld == [t \in Tools |-> Raise]

InitCitationIdle ==
    /\ paper_metadata = EmptyDict
    /\ cite_pc = "return"
    /\ authors_str = <<>>
    /\ apa = <<>>

InitClassifierIdle ==
    /\ topic_list = <<>>
    /\ similarity = [t \in TopicNames |-> 0]
    /\ scores = EmptyDict
    /\ classification = [primary |-> None, secondary |-> {}]
    /\ cls_pc = "done"

\* the answers of the outside world the concurrent runs are checked with
ConcurrentWorlds ==
    {w \in Worlds :
        /\ w["arxiv_search"] = Return(<< Rec("T1", "Doe", "D1", "S1", "arXiv") >>)
        /\ w["semantic_scholar_search"]
              = Return(<< Rec("T1", "Doe", "D1", None, "Semantic Scholar") >>)
        /\ w["pdf_text_extractor"] = Raise
        /\ w["url_processor"] = Raise}

\* concurrent requests to the one summarizer of the process
Init ==
    /\ world \in ConcurrentWorlds
    /\ InitSessions
    /\ InitCitationIdle
    /\ InitClassifierIdle

Next == \E s \in Sessions : ProcessQuery(s)

Spec == Init /\ [][Next]_vars

\* one process_query run, under every answer of the outside world
InitRun ==
    /\ world \in Worlds
    /\ InitSessions
    /\ InitCitationIdle
    /\ InitClassifierIdle

NextRun == ProcessQuery(1)

SpecRun == InitRun /\ [][NextRun]_vars

\* one citation_generator call, on every metadata record
InitCite ==
    /\ world = NoWorld
    /\ InitSessions
    /\ InitClassifierIdle
    /\ paper_metadata \in MetadataRecords
    /\ cite_pc = "call"
    /\ authors_str = <<>>
    /\ apa = <<>>

NextCite == CitationGenerator

SpecCite == InitCite /\ [][NextCite]_vars

\* the classification of one paper, on every topic list and similarity
InitClassify ==
    /\ world = NoWorld
    /\ InitSessions
    /\ InitCitationIdle
    /\ topic_list \in SeqsUpTo(TopicNames, MaxTopics) \ { <<>> }
    /\ similarity \in [TopicNames -> ScoreValues]
    /\ scores = EmptyDict
    /\ classification = [primary |-> None, secondary |-> {}]
    /\ cls_pc = "score"

NextClassify == TopicClassifier \/ AssignTopics

SpecClassify == InitClassify /\ [][NextClassify]_vars

\* ------------------------------------------------------- pipeline claims

RECURSIVE DepsWithin(_, _)
DepsWithin(st, n) ==
    IF n = 0 THEN {}
    ELSE Deps(st) \cup UNION {DepsWithin(d, n - 1) : d \in Deps(st)}

\* the stages a stage depends on, directly or transitively
TransDeps(st) == DepsWithin(st, Len(MapTasks))

\* C1: a stage becomes running only in a step taken from a state where every
\* stage of its declared dependency set (the context it is created with, and
\* the context it is declared with) is done.
C1_RunningOnlyAfterDependencies ==
    [][\A s \in Sessions : \A st \in Stages :
          (status[s][st] # "running" /\ status'[s][st] = "running")
              => \A d \in Deps(st) \cup TaskContext(st) : status[s][d] = "done"]_vars

\* C1 witness: the audio stage of a run is running, after its dependency.
C1_Witness ==
    \E s \in Sessions :
        /\ status[s]["audio"] = "running"
        /\ status[s]["synthesize"] = "done"
        /\ status[s]["process"] = "done"

\* C2: once process_query has ended on a failed stage, every stage that
\* depends on the failed one, directly or transitively, is skipped.
C2_FailedDependencySkipsDependents ==
    \A s \in Sessions : \A st \in Stages : \A d \in TransDeps(st) :
        (pc[s] = "raised" /\ status[s][d] = "failed") => status[s][st] = "skipped"

\* the directories a session wrote files to
WriteDirs(s) == {DirOf(wrote[s][i]) : i \in 1..Len(wrote[s])}

\* C3: two process_query invocations have different session ids and write
\* to no common directory.
C3_SessionIsolation ==
    \A s \in Sessions : \A u \in Sessions \ {s} :
        (session_id[s] # 0 /\ session_id[u] # 0)
            => /\ session_id[s] # session_id[u]
               /\ WriteDirs(s) \cap WriteDirs(u) = {}

HasDoi(r) == r.doi \notin {None, ""}

\* the dedup key of a record: its DOI if it has one, else its title and the
\* surname of its first author (the values of the model are normalised)
DedupKey(r) ==
    IF HasDoi(r) THEN <<"doi", r.doi, "">> ELSE <<"title", r.title, r.surname>>

Papers(s) == Get(results[s], "papers", <<>>)

\* C4: after the ingestion stages the session holds one paper per dedup key,
\* and a paper carries the abstract any fetched record of its key carries.
C4_OnePaperPerDedupKey ==
    \A s \in Sessions :
        status[s]["process"] = "done"
            => /\ \A i \in 1..Len(Papers(s)) : \A j \in 1..Len(Papers(s)) :
                    i # j => DedupKey(Papers(s)[i]) # DedupKey(Papers(s)[j])
               /\ \A i \in 1..Len(Papers(s)) : \A j \in 1..Len(Papers(s)) :
                    (DedupKey(Papers(s)[i]) = DedupKey(Papers(s)[j])
                       /\ Papers(s)[j].abstract # None)
                        => Papers(s)[i].abstract # None

\* the tools that raise in this world
RaisingTools == {t \in Tools : ~world[t].ok}

\* C6: when one ingestion channel raises, process_query does not end on that
\* exception, and the results it returns carry the papers of the other
\* channels and one error entry.
C6_ChannelFailureIsRecorded ==
    \A s \in Sessions :
        Cardinality(RaisingTools) = 1
            => /\ error[s] \notin Tools
               /\ pc[s] = "returned"
                    => /\ Papers(s) = Flatten([i \in 1..3 |->
                                Fetched(world, MapTasks[i].name)])
                       /\ Len(Get(results[s], "errors", <<>>)) = 1

\* C7: when the result directory cannot be created, no stage is started and
\* every stage is marked skipped.
C7_DirectoryFailureSkipsAll ==
    \A s \in Sessions :
        error[s] = "OSError" => \A st \in Stages : status[s][st] = "skipped"

\* the files of the syntheses directory of a session
SynthesisFiles(s) ==
    {f \in fs : DirOf(f) = [root |-> "results", id |-> session_id[s], sub |-> "syntheses"]}

\* C10: after _save_results the syntheses directory holds as many files as
\* the result of process_query counts syntheses.
C10_OneFilePerSynthesis ==
    \A s \in Sessions :
        pc[s] = "returned"
            => Cardinality(SynthesisFiles(s)) = returned[s].result_count.syntheses

\* ------------------------------------------------------------- tool claims

\* the position of the first topic of the list with the highest score
FirstHighest(topics, sc) ==
    CHOOSE i \in 1..Len(topics) :
        /\ topics[i] \in Highest(sc)
        /\ \A j \in 1..(i - 1) : topics[j] \notin Highest(sc)

\* C5: the primary topic is the topic with the highest score that comes
\* first in the topic list, and the secondary topics are the other topics
\* with a score above 0.5.
C5_PrimaryIsFirstHighest ==
    cls_pc = "done"
        => /\ classification.primary = topic_list[FirstHighest(topic_list, scores)]
           /\ classification.secondary =
                {t \in Range(topic_list) \ {classification.primary} :
                    similarity[t] > Threshold}

MetaAuthors == Get(paper_metadata, "authors", <<>>)

\* C8: the author part is "Unknown" for no author, the author for one, the
\* two joined by " & " for two, and the first followed by " et al." for more.
C8_AuthorPart ==
    cite_pc = "return"
        => /\ Len(MetaAuthors) = 0 => authors_str = <<"Unknown">>
           /\ Len(MetaAuthors) = 1 => authors_str = MetaAuthors[1]
           /\ Len(MetaAuthors) = 2
                => authors_str = MetaAuthors[1] \o <<" ", "&", " ">> \o MetaAuthors[2]
           /\ Len(MetaAuthors) >= 3 => authors_str = MetaAuthors[1] \o <<" ", "et al.">>

\* C8 witness: the citation of a record with three authors has been generated.
C8_Witness ==
    /\ cite_pc = "return"
    /\ Len(MetaAuthors) = 3
    /\ authors_str = MetaAuthors[1] \o <<" ", "et al.">>

\* the parts of a citation, as the specification words them
CitationHead ==
    authors_str \o <<" ", "(">> \o Get(paper_metadata, "year", <<"n.d.">>)
        \o <<")", ".", " ">> \o Get(paper_metadata, "title", <<"Unknown Title">>)
        \o <<".">>

CitationVenue ==
    IF Get(paper_metadata, "journal", <<>>) # <<>>
    THEN <<" ">> \o paper_metadata["journal"] \o <<".">>
    ELSE IF Get(paper_metadata, "publisher", <<>>) # <<>>
    THEN <<" ">> \o paper_metadata["publisher"] \o <<".">>
    ELSE <<>>

DoiLocator == <<" ", "https://doi.org/">> \o Get(paper_metadata, "doi", <<>>)

UrlLocator == <<" ", "Retrieved from", " ">> \o Get(paper_metadata, "url", <<>>)

\* C9 as claimed: head, venue, then always one locator, the url locator
\* whenever there is no DOI (the string stripped of blanks at its ends).
C9_AlwaysOneLocator ==
    cite_pc = "return"
        => apa = Strip(CitationHead \o CitationVenue
                        \o (IF Get(paper_metadata, "doi", <<>>) # <<>>
                            THEN DoiLocator ELSE UrlLocator))

\* C9 as amended: head, venue, then the DOI locator if there is a DOI, else
\* the url locator if the url is not empty, else no locator (the string
\* stripped of blanks at its ends).
C9_LocatorWhenPresent ==
    cite_pc = "return"
        => apa = Strip(CitationHead \o CitationVenue
                        \o (IF Get(paper_metadata, "doi", <<>>) # <<>> THEN DoiLocator
                            ELSE IF Get(paper_metadata, "url", <<>>) # <<>> THEN UrlLocator
                            ELSE <<>>))

\* C9 witness: the citation of a record with a journal and neither DOI nor
\* url has been generated, and ends with the journal.
C9_Witness ==
    /\ cite_pc = "return"
    /\ Get(paper_metadata, "doi", <<>>) = <<>>
    /\ Get(paper_metadata, "url", <<>>) = <<>>
    /\ Get(paper_metadata, "journal", <<>>) # <<>>
    /\ apa = CitationHead \o CitationVenue


\* ------------------------------------------------------- artifact claims

\* the audio files a session's results refer to
AudioArtifacts(s) == Get(results[s], "audio_files", <<>>)

\* C11: every audio artifact has a file of its own: no two audio_generator
\* calls, of one session or of two, have written the same file.
C11_OneFilePerAudioArtifact ==
    \A s \in Sessions : \A u \in Sessions :
        \A i \in 1..Len(AudioArtifacts(s)) : \A j \in 1..Len(AudioArtifacts(u)) :
            (s # u \/ i # j) => AudioArtifacts(s)[i] # AudioArtifacts(u)[j]

\* C12: the summaries of a session are on disk once its summarize stage is
\* done, and results.json is written after every summary and synthesis file
\* of the session.
C12_IndexWrittenLast ==
    \A s \in Sessions :
        /\ status[s]["summarize"] = "done"
            => \A p \in DOMAIN Get(results[s], "summaries", <<>>) :
                  SummaryFile(session_id[s], p) \in fs
        /\ \A i \in 1..Len(wrote[s]) : \A j \in 1..Len(wrote[s]) :
              (wrote[s][i] = ResultsJson(session_id[s])
                 /\ wrote[s][j].sub \in {"summaries", "syntheses"})
                  => j < i

\* ----------------------------------------------------------- crew claims

\* C13: no task of a session is given a memory another session left: the
\* sessions share no mutable state.
C13_NoSharedState ==
    \A s \in Sessions : recalled[s] \subseteq {s}

\* C14: every task named in the context of a task of the crew's list is
\* itself a task of that list, at an earlier position.
C14_ContextWithinTaskList ==
    \A i \in 1..Len(tasks) : \A c \in tasks[i].context :
        \E j \in 1..(i - 1) : tasks[j].obj = c

====
